---- MODULE Spec2Model ----
(***************************************************************************)
(* Model of gt/core/joint.py: orient_joint over a small host scene.        *)
(*                                                                         *)
(* The host scene (maya.cmds) is a forest of nodes.  Every node stores its *)
(* LOCAL transform (translation, joint orient, rotation) relative to its   *)
(* parent; world transforms are computed by composing up the parent chain, *)
(* so re-orienting a joint carries along whatever is still parented under  *)
(* it.  Positions are integer vectors, directions are axis aligned and     *)
(* rotations are the 24 rotations of the cube, so that every quantity the  *)
(* code computes (normalised vectors, dot products, aim frames) is exact.  *)
(***************************************************************************)
EXTENDS Integers, Sequences, FiniteSets, TLC

\* ------------------------------------------------------------------ bounds
\* Number of nodes in the host scene.
MaxNodes == 3

\* ------------------------------------------------------------------ names
Nodes == 1..MaxNodes
\* Scene root ("world"): the parent of a node that has no parent.
World == 0
\* Python values the code compares names against.
EmptyStr == -1
EmptyList == -2
\* A name in joint_list that no node of the scene has.
MissingJnt == -3
\* Name of the transient locator f"{jnt}_aim_loc".
LocName(j) == -10 - j
IsLocName(n) == n <= -11

\* ------------------------------------------------------------------ vectors
Zero3 == <<0, 0, 0>>
AxisX == <<1, 0, 0>>
AxisY == <<0, 1, 0>>
AxisZ == <<0, 0, 1>>
Abs(x) == IF x < 0 THEN -x ELSE x
VAdd(a, b) == <<a[1] + b[1], a[2] + b[2], a[3] + b[3]>>
VSub(a, b) == <<a[1] - b[1], a[2] - b[2], a[3] - b[3]>>
VScale(k, a) == <<k * a[1], k * a[2], k * a[3]>>
VNeg(a) == VScale(-1, a)
Cross(a, b) == <<a[2] * b[3] - a[3] * b[2],
                 a[3] * b[1] - a[1] * b[3],
                 a[1] * b[2] - a[2] * b[1]>>
Axes6 == {AxisX, AxisY, AxisZ, VNeg(AxisX), VNeg(AxisY), VNeg(AxisZ)}

\* MVector.normal(): the unit vector of v, and v itself when v has no length.
\* Every vector of the model is axis aligned, so its length is the sum of the
\* absolute values of its components.
Normal(v) ==
    LET n == Abs(v[1]) + Abs(v[2]) + Abs(v[3])
    IN  IF n = 0 THEN v ELSE <<v[1] \div n, v[2] \div n, v[3] \div n>>

\* core_math.dot_product
dot_product(a, b) == a[1] * b[1] + a[2] * b[2] + a[3] * b[3]

\* ------------------------------------------------------------------ rotations
\* A rotation is the triple of the images of the local X, Y and Z axes.
Identity == <<AxisX, AxisY, AxisZ>>
CubeRots ==
    {r \in Axes6 \X Axes6 \X Axes6 :
        dot_product(r[1], r[2]) = 0 /\ r[3] = Cross(r[1], r[2])}
Apply(r, v) == VAdd(VAdd(VScale(v[1], r[1]), VScale(v[2], r[2])), VScale(v[3], r[3]))
Compose(a, b) == <<Apply(a, b[1]), Apply(a, b[2]), Apply(a, b[3])>>
Inverse(r) == <<<<r[1][1], r[2][1], r[3][1]>>,
                <<r[1][2], r[2][2], r[3][2]>>,
                <<r[1][3], r[2][3], r[3][3]>>>>
\* Half a turn about the axis a (a signed coordinate axis).
HalfTurn(a) ==
    <<IF a[1] # 0 THEN AxisX ELSE VNeg(AxisX),
      IF a[2] # 0 THEN AxisY ELSE VNeg(AxisY),
      IF a[3] # 0 THEN AxisZ ELSE VNeg(AxisZ)>>

\* ------------------------------------------------------------------ host scene
\* A scene S is a record: parent[n] (a node or World), kind[n] ("joint" or
\* "transform"), trans[n] (local translation), orient[n] (jointOrient) and
\* rot[n] (the rotate and rotateAxis channels), for every node n.
RECURSIVE WRot(_, _)
WRot(S, n) ==
    IF n = World THEN Identity
    ELSE Compose(WRot(S, S.parent[n]), Compose(S.orient[n], S.rot[n]))

RECURSIVE WPos(_, _)
WPos(S, n) ==
    IF n = World THEN Zero3
    ELSE VAdd(WPos(S, S.parent[n]), Apply(WRot(S, S.parent[n]), S.trans[n]))

\* The local rotation of n relative to its parent.
LocalRot(S, n) == Compose(S.orient[n], S.rot[n])

\* The elements of a set of node names as a list, in scene order.
RECURSIVE Ordered(_)
Ordered(set) ==
    IF set = {} THEN <<>>
    ELSE LET m == CHOOSE x \in set : \A y \in set : x <= y
         IN  <<m>> \o Ordered(set \ {m})

\* cmds.listRelatives(n, parent=True, fullPath=True) or []
ListParent(S, n) == IF S.parent[n] = World THEN <<>> ELSE <<S.parent[n]>>

\* cmds.listRelatives(n, children=True, typ=t, fullPath=True) or []
ListChildren(S, n, t) ==
    Ordered({c \in Nodes : S.parent[c] = n /\ S.kind[c] = t})

\* cmds.parent(c, p) and cmds.parent(c, world=True) for one node: the node
\* moves under p and its local transform is recomputed so that its world
\* transform stays what it was.
ParentOne(S, c, p) ==
    LET inv == Inverse(WRot(S, p))
    IN  [S EXCEPT !.parent[c] = p,
                  !.trans[c] = Apply(inv, VSub(WPos(S, c), WPos(S, p))),
                  !.rot[c] = Compose(Inverse(S.orient[c]),
                                     Compose(inv, WRot(S, c)))]

\* cmds.parent(children, p): the list is re-parented one node after the other.
RECURSIVE ParentAll(_, _, _)
ParentAll(S, list, p) ==
    IF list = <<>> THEN S
    ELSE ParentAll(ParentOne(S, Head(list), p), Tail(list), p)

\* Mutant of SetWorldRot: the rotation is written without taking the parent's
\* world rotation and the joint orient out of it.
SetWorldRot_IgnoresParent(S, j, w) ==
    [S EXCEPT !.rot[j] = w]

\* A constraint writes the rotate channel of j so that j's world rotation is w.
SetWorldRot(S, j, w) ==
    [S EXCEPT !.rot[j] =
        Compose(Inverse(Compose(WRot(S, S.parent[j]), S.orient[j])), w)]

\* Mutant of RotateAxisHalfTurn: the half turn is made about another local axis.
RotateAxisHalfTurn_WrongAxis(S, j, a) ==
    [S EXCEPT !.rot[j] = Compose(S.rot[j], HalfTurn(<<a[3], a[1], a[2]>>))]

\* cmds.xform(j, r=True, os=True, ra=(a * 180)): half a turn about the local
\* axis a, applied before the rotate channel.
RotateAxisHalfTurn(S, j, a) ==
    [S EXCEPT !.rot[j] = Compose(S.rot[j], HalfTurn(a))]

\* cmds.joint(j, e=True, zeroScaleOrient=True); cmds.makeIdentity(j, apply=True):
\* the rotation is frozen into the joint orient, the world rotation stays.
Bake(S, j) ==
    [S EXCEPT !.orient[j] = Compose(S.orient[j], S.rot[j]),
              !.rot[j] = Identity]

\* ------------------------------------------------------------------ program state
VARIABLES
    scene,        \* the host scene
    locs,         \* the transient locators that exist: [name, pos] records
    joint_list,   \* argument: the names to process, in order
    req,          \* arguments: aim_axis, up_axis, up_dir, detect_up_dir, world_aligned
    pc,           \* position in orient_joint
    index,        \* local: index
    parent,       \* local: parent (a name, or EmptyList)
    children,     \* local: children
    aim_target,   \* local: aim_target
    up_vec,       \* local: up_vec, as handed to the aim constraint
    up_est,       \* local: up_vec as it is before line 93, the estimate
    starting_up,  \* local: starting_up, the continuity state
    scene0,       \* history: the scene when orient_joint was called
    snap,         \* history: world transform of each child when it was detached
    ups,          \* history: the continuity state stored by each aimed joint
    basis,        \* history: per aimed list entry, the aim frame it was given
    trace,        \* history: the host operations issued, in order
    selection,    \* the host's selection: the names cmds.ls(selection=True) lists
    stored_selection,  \* local: stored_selection
    selected_joint,    \* get_root_from_joint: argument
    root_joint         \* get_root_from_joint: local root_joint

\* What no step of a loop over joint_list writes.
aside == <<stored_selection, selected_joint, root_joint>>

vars == <<scene, locs, joint_list, req, pc, index, parent, children, aim_target,
          up_vec, up_est, starting_up, scene0, snap, ups, basis, trace,
          selection, stored_selection, selected_joint, root_joint>>

\* Mutant of jnt: the list is walked from its end.
jnt_FromTheEnd == joint_list[Len(joint_list) - index]

\* The list entry being processed: jnt = str(jnt) of the for statement.
jnt == joint_list[index + 1]

Exists(S, n) == n \in Nodes

\* World position of a named object: a node of the scene or a locator.
PosOf(S, L, n) ==
    IF IsLocName(n) THEN (CHOOSE l \in L : l.name = n).pos ELSE WPos(S, n)

\* The last joint of a list of names, "" when it holds none:
\*     for child in children: if cmds.nodeType(child) == "joint": aim_target = child
RECURSIVE LastJoint(_, _)
LastJoint(S, list) ==
    IF list = <<>> THEN EmptyStr
    ELSE IF S.kind[list[Len(list)]] = "joint" THEN list[Len(list)]
    ELSE LastJoint(S, SubSeq(list, 1, Len(list) - 1))

\* ------------------------------------------------------------------ host calls
\* The outcome of a host call that returns a vector: it raises, or returns v.
Fail == [ok |-> FALSE, v |-> Zero3]
Ok(v) == [ok |-> TRUE, v |-> v]

\* |a - b| <= 0.0001 on every component (tolerance = 0.0001).
Within(a, b) ==
    \A i \in 1..3 : Abs(a[i] - b[i]) * 10000 <= 1

\* cmds.xform(n, q=True, ws=True, rp=True).  With the empty list for a name the
\* host falls back on whatever is selected: it raises, or answers for some node.
XformQuery(S, L, n) ==
    IF n = EmptyList THEN {Fail} \cup {Ok(WPos(S, m)) : m \in Nodes}
    ELSE IF n = EmptyStr THEN {Fail}
    ELSE {Ok(PosOf(S, L, n))}

\* Mutant of CrossDirection: the first edge is taken from the first point to
\* the second instead of from the second to the first.
CrossDirection_FirstEdgeReversed(p_a, p_b, p_c) ==
    Normal(Cross(VSub(p_b, p_a), VSub(p_c, p_b)))

\* The cross direction of three points: the unit normal of their plane, and the
\* zero vector when they are collinear or two of them coincide.
CrossDirection(p_a, p_b, p_c) == Normal(Cross(VSub(p_a, p_b), VSub(p_c, p_b)))

\* core_math.objects_cross_direction(a, b, c).  What it does with a name that is
\* no object ("" or []) is not known: it raises, or gives no estimate.
objects_cross_direction(S, L, a, b, c) ==
    IF {a, b, c} \cap {EmptyStr, EmptyList} # {} THEN {Fail, Ok(Zero3)}
    ELSE {Ok(CrossDirection(PosOf(S, L, a), PosOf(S, L, b), PosOf(S, L, c)))}

\* cmds.listRelatives(t, children=True, fullPath=True) or []: a locator has its
\* shape for only child, which is no joint.
ListAllChildren(S, t) ==
    IF IsLocName(t) THEN <<>> ELSE Ordered({c \in Nodes : S.parent[c] = t})

\* Mutant of UpEstimates: with the parent at a distinct position, the joint
\* and its parent are handed to objects_cross_direction in the other order.
UpEstimates_SwappedPoints(S, L, j, par, target) ==
    LET pos_jnt_ws == WPos(S, j)
        parents == IF par # EmptyStr THEN XformQuery(S, L, par) ELSE {Ok(pos_jnt_ws)}
    IN  UNION {IF ~pp.ok THEN {Fail}
               ELSE IF par = EmptyStr \/ Within(pos_jnt_ws, pp.v)
                    THEN objects_cross_direction(S, L, j, target,
                                                 LastJoint(S, ListAllChildren(S, target)))
                    ELSE objects_cross_direction(S, L, j, par, target)
               : pp \in parents}

\* if detect_up_dir: ... (the bend-plane estimate of the up vector)
UpEstimates(S, L, j, par, target) ==
    LET pos_jnt_ws == WPos(S, j)
        parents == IF par # EmptyStr THEN XformQuery(S, L, par) ELSE {Ok(pos_jnt_ws)}
    IN  UNION {IF ~pp.ok THEN {Fail}
               ELSE IF par = EmptyStr \/ Within(pos_jnt_ws, pp.v)
                    THEN objects_cross_direction(S, L, j, target,
                                                 LastJoint(S, ListAllChildren(S, target)))
                    ELSE objects_cross_direction(S, L, par, j, target)
               : pp \in parents}

\* Mutant of UpVectorUsed: a zero estimate is not replaced by up_dir.
UpVectorUsed_NoFallback(detect, estimate, up_dir) ==
    IF ~detect THEN up_dir ELSE estimate

\* The up vector handed to the aim constraint:
\*     if not detect_up_dir or (up_vec == (0, 0, 0)): up_vec = up_dir
UpVectorUsed(detect, estimate, up_dir) ==
    IF ~detect \/ (estimate[1] = 0 /\ estimate[2] = 0 /\ estimate[3] = 0)
    THEN up_dir ELSE estimate

\* The world rotations an aim constraint can give a joint: aim_axis points along
\* dir and up_axis along the part of up that is perpendicular to dir.  Where the
\* target sits on the joint, or up has no such part, the host decides.
AimSolutions(aim_axis, up_axis, dir, up) ==
    LET upp == Normal(VSub(up, VScale(dot_product(up, dir), dir)))
    IN  IF dir = Zero3 THEN CubeRots
        ELSE {w \in CubeRots : /\ Apply(w, aim_axis) = dir
                               /\ upp # Zero3 => Apply(w, up_axis) = upp}

\* Mutants of FlipNeeded: the comparison is inverted; the index is not tested.
FlipNeeded_Inverted(i, dot) == i > 0 /\ dot >= 0
FlipNeeded_NoIndexCheck(i, dot) == dot <= 0
\* Mutant of FlipNeeded: a dot product of zero does not flip.
FlipNeeded_StrictlyNegative(i, dot) == i > 0 /\ dot < 0

\* Mutant of FlipNeeded: the test is on the number of joints aimed so far.
FlipNeeded_CountsAimedJoints(i, dot) == Len(ups) > 0 /\ dot <= 0

\* if index > 0 and dot <= 0.0
FlipNeeded(i, dot) == i > 0 /\ dot <= 0

\* Mutants of DetachChildren and ReattachChildren: the re-parenting is left out.
DetachChildren_Skipped(S, kids) == S
ReattachChildren_Skipped(S, kids, j) == S

\* children = cmds.parent(children, world=True), when there are children
DetachChildren(S, kids) == IF Len(kids) > 0 THEN ParentAll(S, kids, World) ELSE S

\* cmds.parent(children, jnt), when there are children
ReattachChildren(S, kids, j) == IF Len(kids) > 0 THEN ParentAll(S, kids, j) ELSE S

\* The selection after cmds.parent(list, ...): the host leaves the nodes it has
\* moved selected.
SelectedAfterParent(sel, list) ==
    IF Len(list) > 0 THEN {list[i] : i \in 1..Len(list)} ELSE sel

\* Mutant of RestoreSelection: the selection is cleared and not selected again.
RestoreSelection_ClearsOnly(stored) == {[sel |-> {}, failed |-> FALSE]}

\* cmds.select(clear=True); if stored_selection: try: cmds.select(stored_selection)
\* except Exception: logger.debug(...).  The host may refuse to select the names
\* again; the exception is caught and the selection stays cleared.
RestoreSelection(stored) ==
    IF stored = {} THEN {[sel |-> {}, failed |-> FALSE]}
    ELSE {[sel |-> stored, failed |-> FALSE], [sel |-> {}, failed |-> TRUE]}

\* ------------------------------------------------------------------ initial states
\* World offsets of a node from its parent (from the origin for a root).
Offsets == {AxisX, <<0, 2, 0>>, Zero3}
\* World rotations the nodes start with, by node.
InitWRots == <<<<AxisY, VNeg(AxisX), AxisZ>>, Identity, <<AxisX, AxisZ, VNeg(AxisY)>>>>
InitWRot(n) == IF n = World THEN Identity ELSE InitWRots[(n % 3) + 1]

RECURSIVE InitWPos(_, _, _)
InitWPos(par, off, n) ==
    IF n = World THEN Zero3 ELSE VAdd(InitWPos(par, off, par[n]), off[n])

\* The scene with the given parents, kinds and world offsets.
InitScene(par, tr, off) ==
    [parent |-> par,
     kind   |-> [n \in Nodes |-> IF n = tr THEN "transform" ELSE "joint"],
     trans  |-> [n \in Nodes |-> Apply(Inverse(InitWRot(par[n])), off[n])],
     orient |-> [n \in Nodes |-> Identity],
     rot    |-> [n \in Nodes |-> Compose(Inverse(InitWRot(par[n])), InitWRot(n))]]

\* The scenes explored are the chains 1 -> 2 -> ... of joints one unit step
\* along +X apart, with at most one irregular node k: k may be parented under
\* any earlier node or under the world, may be a plain transform, and may sit
\* at another offset from its parent (a step of 2 along +Y, or no offset).
ParentMap(k, p) == [n \in Nodes |-> IF n = k THEN p ELSE n - 1]
OffsetMap(k, v) ==
    [n \in Nodes |-> IF n = 1 THEN Zero3 ELSE IF n = k THEN v ELSE AxisX]
Scenes ==
    {InitScene(ParentMap(i[1], i[2]), IF t THEN i[1] ELSE 0, OffsetMap(i[1], v)) :
        i \in {x \in Nodes \X (0..MaxNodes) : x[2] < x[1]},
        t \in BOOLEAN, v \in Offsets}

Requests ==
    {[aim_axis |-> a[1], up_axis |-> a[2], up_dir |-> a[3], detect_up_dir |-> d,
      world_aligned |-> w] :
        a \in {<<AxisX, AxisY, AxisY>>, <<AxisY, AxisZ, <<0, 0, 2>>>>},
        d \in BOOLEAN, w \in BOOLEAN}

Reverse(list) == [i \in 1..Len(list) |-> list[Len(list) + 1 - i]]

\* The lists orient_joint is called with: the joints of the scene root to leaf,
\* the same leaf to root, and the first with a name that no node has.
JointLists(S) ==
    LET fwd == Ordered({n \in Nodes : S.kind[n] = "joint"})
    IN  {fwd, Reverse(fwd), <<Head(fwd), MissingJnt>> \o Tail(fwd)}

Init ==
    /\ scene \in Scenes
    /\ joint_list \in JointLists(scene)
    /\ req \in Requests
    /\ locs = {}
    /\ pc = "loop"
    /\ index = 0
    /\ parent = EmptyStr
    /\ children = <<>>
    /\ aim_target = EmptyStr
    /\ up_vec = Zero3
    /\ up_est = Zero3
    /\ starting_up = Zero3
    /\ scene0 = scene
    /\ snap = <<>>
    /\ ups = <<>>
    /\ basis = <<>>
    /\ trace = <<>>
    /\ selection = {}
    /\ stored_selection = selection
    /\ selected_joint = EmptyStr
    /\ root_joint = EmptyStr

\* ------------------------------------------------------------------ orient_joint
\* An exception leaves orient_joint: nothing of the rest of the call runs.
Raise ==
    /\ pc' = "raised"
    /\ UNCHANGED <<scene, locs, joint_list, req, aside, selection, index, parent, children, aim_target,
                   up_vec, up_est, starting_up, scene0, snap, ups, basis, trace>>

\* for jnt in joint_list: store the parent, un-parent the children.
Detach ==
    /\ pc = "loop"
    /\ index < Len(joint_list)
    /\ IF ~Exists(scene, jnt) THEN Raise
       ELSE LET par == ListParent(scene, jnt)
                kids == ListChildren(scene, jnt, "transform")
                          \o ListChildren(scene, jnt, "joint")
            IN  /\ parent' = IF Len(par) # 0 THEN par[1] ELSE EmptyList
                /\ children' = kids
                /\ snap' = [i \in 1..Len(kids) |->
                              <<WPos(scene, kids[i]), WRot(scene, kids[i])>>]
                /\ scene' = DetachChildren(scene, kids)
                /\ trace' = Append(trace, <<"detach", jnt>>)
                /\ selection' = SelectedAfterParent(selection, kids)
                /\ pc' = "target"
                /\ UNCHANGED <<locs, joint_list, req, aside, index, aim_target, up_vec, up_est,
                               starting_up, scene0, ups, basis>>

\* Mutant of Target: world_aligned is not looked at.
Target_IgnoresWorldAligned ==
    /\ pc = "target"
    /\ aim_target' = LastJoint(scene, children)
    /\ pc' = IF aim_target' # EmptyStr THEN "up" ELSE "copy"
    /\ UNCHANGED <<scene, locs, trace, selection, joint_list, req, aside, index, parent,
                   children, up_vec, up_est, starting_up, scene0, snap, ups, basis>>

\* Determine the aim target: a locator, or a joint among the children.
Target ==
    /\ pc = "target"
    /\ IF req.world_aligned
       THEN /\ locs' = locs \cup {[name |-> LocName(jnt),
                                    pos |-> VAdd(WPos(scene, jnt), AxisY)]}
            /\ aim_target' = LocName(jnt)
            /\ trace' = Append(trace, <<"locator", jnt>>)
            /\ selection' = {LocName(jnt)}
       ELSE /\ aim_target' = LastJoint(scene, children)
            /\ UNCHANGED <<locs, trace, selection>>
    /\ pc' = IF aim_target' # EmptyStr THEN "up" ELSE "copy"
    /\ UNCHANGED <<scene, joint_list, req, aside, index, parent, children, up_vec, up_est,
                   starting_up, scene0, snap, ups, basis>>

\* Choose the up vector.
UpVec ==
    /\ pc = "up"
    /\ \E o \in (IF req.detect_up_dir
                  THEN UpEstimates(scene, locs, jnt, parent, aim_target)
                  ELSE {Ok(Zero3)}) :
          IF ~o.ok THEN Raise
          ELSE /\ up_est' = o.v
               /\ up_vec' = UpVectorUsed(req.detect_up_dir, o.v, req.up_dir)
               /\ pc' = "aim"
               /\ UNCHANGED <<scene, locs, joint_list, req, aside, selection, index, parent, children,
                              aim_target, starting_up, scene0, snap, ups, basis, trace>>

\* Mutant of Aim: the locator of the world_aligned mode is not deleted.
Aim_KeepsLocator ==
    /\ pc = "aim"
    /\ LET dir == Normal(VSub(PosOf(scene, locs, aim_target), WPos(scene, jnt)))
       IN  /\ \E w \in AimSolutions(req.aim_axis, req.up_axis, dir, up_vec) :
                 scene' = SetWorldRot(scene, jnt, w)
           /\ basis' = Append(basis, [j |-> jnt, i |-> index, t |-> aim_target,
                                      dir |-> dir, up |-> up_vec,
                                      est |-> up_est, flip |-> FALSE])
    /\ trace' = Append(trace, <<"aim", jnt>>)
    /\ pc' = "flip"
    /\ UNCHANGED <<locs, selection, joint_list, req, aside, index, parent, children,
                   aim_target, up_vec, up_est, starting_up, scene0, snap, ups>>

\* cmds.delete(cmds.aimConstraint(...)), then the locator is deleted.
Aim ==
    /\ pc = "aim"
    /\ LET dir == Normal(VSub(PosOf(scene, locs, aim_target), WPos(scene, jnt)))
       IN  /\ \E w \in AimSolutions(req.aim_axis, req.up_axis, dir, up_vec) :
                 scene' = SetWorldRot(scene, jnt, w)
           /\ basis' = Append(basis, [j |-> jnt, i |-> index, t |-> aim_target,
                                      dir |-> dir, up |-> up_vec,
                                      est |-> up_est, flip |-> FALSE])
    /\ locs' = IF req.world_aligned THEN {l \in locs : l.name # aim_target} ELSE locs
    /\ selection' = IF req.world_aligned THEN selection \ {aim_target} ELSE selection
    /\ trace' = Append(trace, <<"aim", jnt>>)
    /\ pc' = "flip"
    /\ UNCHANGED <<joint_list, req, aside, index, parent, children, aim_target, up_vec, up_est,
                   starting_up, scene0, snap, ups>>

\* Mutant of Flip: the continuity state is not negated with the half turn.
Flip_StateNotNegated ==
    /\ pc = "flip"
    /\ LET current_up == Normal(up_vec)
           dot == dot_product(current_up, starting_up)
           flip == FlipNeeded(index, dot)
       IN  /\ starting_up' = Normal(up_vec)
           /\ scene' = IF flip THEN RotateAxisHalfTurn(scene, jnt, req.aim_axis)
                                ELSE scene
           /\ basis' = [basis EXCEPT ![Len(basis)].flip = flip]
           /\ trace' = IF flip THEN Append(trace, <<"flip", jnt>>) ELSE trace
    /\ ups' = Append(ups, starting_up')
    /\ pc' = "bake"
    /\ UNCHANGED <<locs, joint_list, req, aside, selection, index, parent, children,
                   aim_target, up_vec, up_est, scene0, snap>>

\* The continuity check, and the half turn about the aim axis.
Flip ==
    /\ pc = "flip"
    /\ LET current_up == Normal(up_vec)
           dot == dot_product(current_up, starting_up)
           flip == FlipNeeded(index, dot)
       IN  /\ starting_up' = IF flip THEN VNeg(Normal(up_vec)) ELSE Normal(up_vec)
           /\ scene' = IF flip THEN RotateAxisHalfTurn(scene, jnt, req.aim_axis)
                                ELSE scene
           /\ basis' = [basis EXCEPT ![Len(basis)].flip = flip]
           /\ trace' = IF flip THEN Append(trace, <<"flip", jnt>>) ELSE trace
    /\ ups' = Append(ups, starting_up')
    /\ pc' = "bake"
    /\ UNCHANGED <<locs, joint_list, req, aside, selection, index, parent, children, aim_target,
                   up_vec, up_est, scene0, snap>>

\* cmds.joint(jnt, e=True, zeroScaleOrient=True); cmds.makeIdentity(jnt, apply=True)
BakeAimed ==
    /\ pc = "bake"
    /\ scene' = Bake(scene, jnt)
    /\ trace' = Append(trace, <<"bake", jnt>>)
    /\ pc' = "reattach"
    /\ UNCHANGED <<locs, joint_list, req, aside, selection, index, parent, children, aim_target,
                   up_vec, up_est, starting_up, scene0, snap, ups, basis>>

\* Mutant of CopyParent: the copy-parent branch clears the continuity state.
CopyParent_ClearsState ==
    /\ pc = "copy"
    /\ parent \notin {EmptyStr, EmptyList}
    /\ scene' = Bake(SetWorldRot(scene, jnt, WRot(scene, parent)), jnt)
    /\ trace' = trace \o <<<<"orient", jnt>>, <<"bake", jnt>>>>
    /\ starting_up' = Zero3
    /\ pc' = "reattach"
    /\ UNCHANGED <<locs, joint_list, req, aside, selection, index, parent, children, aim_target,
                   up_vec, up_est, scene0, snap, ups, basis>>

\* elif parent != "": copy the parent's orientation and bake it.  The orient
\* constraint raises when it is given no target.
CopyParent ==
    /\ pc = "copy"
    /\ IF parent # EmptyStr
       THEN IF parent = EmptyList THEN Raise
            ELSE /\ scene' = Bake(SetWorldRot(scene, jnt, WRot(scene, parent)), jnt)
                 /\ trace' = trace \o <<<<"orient", jnt>>, <<"bake", jnt>>>>
                 /\ pc' = "reattach"
                 /\ UNCHANGED <<locs, joint_list, req, aside, selection, index, parent, children,
                                aim_target, up_vec, up_est, starting_up, scene0, snap, ups,
                                basis>>
       ELSE /\ pc' = "reattach"
            /\ UNCHANGED <<scene, locs, joint_list, req, aside, selection, index, parent, children,
                           aim_target, up_vec, up_est, starting_up, scene0, snap, ups, basis,
                           trace>>

\* Parent the children back under the joint; index += 1.
Reattach ==
    /\ pc = "reattach"
    /\ scene' = ReattachChildren(scene, children, jnt)
    /\ trace' = Append(trace, <<"reattach", jnt>>)
    /\ selection' = SelectedAfterParent(selection, children)
    /\ index' = index + 1
    /\ pc' = "loop"
    /\ UNCHANGED <<locs, joint_list, req, aside, parent, children, aim_target, up_vec, up_est,
                   starting_up, scene0, snap, ups, basis>>

\* The loop is over: cmds.select(clear=True), the stored selection is selected
\* again when there is one, and orient_joint returns.
Select ==
    /\ pc = "loop"
    /\ index = Len(joint_list)
    /\ \E o \in RestoreSelection(stored_selection) :
          /\ selection' = o.sel
          /\ trace' = IF o.failed THEN Append(trace, <<"unselectable", EmptyStr>>)
                                   ELSE trace
    /\ pc' = "done"
    /\ UNCHANGED <<scene, locs, joint_list, req, aside, index, parent, children, aim_target,
                   up_vec, up_est, starting_up, scene0, snap, ups, basis>>

Next ==
    \/ Detach
    \/ Target
    \/ UpVec
    \/ Aim
    \/ Flip
    \/ BakeAimed
    \/ CopyParent
    \/ Reattach
    \/ Select

Spec == Init /\ [][Next]_vars

\* ------------------------------------------------------------------ reset_orients
\* cmds.joint(j, e=True, orientJoint="none", zeroScaleOrient=True): the joint
\* orient of j is zeroed.  Whether the host keeps the nodes under j where they
\* are in the world, or lets them follow j, is the host's business: both.
ZeroJointOrient(S, j) ==
    LET kids == Ordered({c \in Nodes : S.parent[c] = j})
        zeroed == [ParentAll(S, kids, World) EXCEPT !.orient[j] = Identity]
    IN  {[S EXCEPT !.orient[j] = Identity], ParentAll(zeroed, kids, j)}

\* The joints of S with their rotation held by the joint orient, as
\* orient_joint leaves them.
Oriented(S) ==
    [S EXCEPT !.orient = [n \in Nodes |-> IF S.kind[n] = "joint" THEN S.rot[n] ELSE Identity],
              !.rot = [n \in Nodes |-> IF S.kind[n] = "joint" THEN Identity ELSE S.rot[n]]]
\* The scenes reset_orients is called on.
ResetScenes == Scenes \cup {Oriented(S) : S \in Scenes}

\* The lists reset_orients is called with: those of orient_joint, and no entry.
ResetLists(S) == JointLists(S) \cup {<<>>}
\* What is selected when reset_orients is called.
Selections == {{}, {1}, {MaxNodes - 1, MaxNodes}}

ResetInit ==
    /\ scene \in ResetScenes
    /\ joint_list \in ResetLists(scene)
    /\ req \in {[verbose |-> v] : v \in BOOLEAN}
    /\ selection \in Selections
    /\ stored_selection = selection
    /\ locs = {}
    /\ pc = "reset_loop"
    /\ index = 0
    /\ parent = EmptyList
    /\ children = <<>>
    /\ aim_target = EmptyStr
    /\ up_vec = Zero3
    /\ up_est = Zero3
    /\ starting_up = Zero3
    /\ scene0 = scene
    /\ snap = <<>>
    /\ ups = <<>>
    /\ basis = <<>>
    /\ trace = <<>>
    /\ selected_joint = EmptyStr
    /\ root_joint = EmptyStr

\* if not cmds.objExists(jnt): if verbose: cmds.warning(...); continue
ResetSkip ==
    /\ pc = "reset_loop"
    /\ index < Len(joint_list)
    /\ ~Exists(scene, jnt)
    /\ trace' = IF req.verbose THEN Append(trace, <<"warning", jnt>>) ELSE trace
    /\ index' = index + 1
    /\ UNCHANGED <<scene, locs, joint_list, req, aside, selection, pc, parent, children,
                   aim_target, up_vec, up_est, starting_up, scene0, snap, ups, basis>>

\* parent = cmds.listRelatives(...) or []; if parent: cmds.parent(jnt, world=True)
ResetUnparent ==
    /\ pc = "reset_loop"
    /\ index < Len(joint_list)
    /\ Exists(scene, jnt)
    /\ LET par == ListParent(scene, jnt)
       IN  /\ parent' = IF Len(par) # 0 THEN par[1] ELSE EmptyList
           /\ scene' = IF Len(par) # 0 THEN ParentOne(scene, jnt, World) ELSE scene
           /\ selection' = IF Len(par) # 0 THEN {jnt} ELSE selection
           /\ trace' = IF Len(par) # 0 THEN Append(trace, <<"unparent", jnt>>)
                                       ELSE trace
    /\ pc' = "reset_orient"
    /\ UNCHANGED <<locs, joint_list, req, aside, index, children, aim_target, up_vec,
                   up_est, starting_up, scene0, snap, ups, basis>>

\* cmds.joint(jnt, e=True, orientJoint="none", zeroScaleOrient=True)
ResetOrient ==
    /\ pc = "reset_orient"
    /\ scene' \in ZeroJointOrient(scene, jnt)
    /\ trace' = Append(trace, <<"orient", jnt>>)
    /\ pc' = "reset_reparent"
    /\ UNCHANGED <<locs, joint_list, req, aside, selection, index, parent, children,
                   aim_target, up_vec, up_est, starting_up, scene0, snap, ups, basis>>

\* Mutant of ResetReparent: the joint is left parented to the world.
ResetReparent_Skipped ==
    /\ pc = "reset_reparent"
    /\ index' = index + 1
    /\ pc' = "reset_loop"
    /\ UNCHANGED <<scene, selection, trace, locs, joint_list, req, aside, parent, children,
                   aim_target, up_vec, up_est, starting_up, scene0, snap, ups, basis>>

\* if parent: cmds.parent(jnt, parent_as_node); then the next entry.
ResetReparent ==
    /\ pc = "reset_reparent"
    /\ IF parent # EmptyList
       THEN /\ scene' = ParentOne(scene, jnt, parent)
            /\ selection' = {jnt}
            /\ trace' = Append(trace, <<"reparent", jnt>>)
       ELSE UNCHANGED <<scene, selection, trace>>
    /\ index' = index + 1
    /\ pc' = "reset_loop"
    /\ UNCHANGED <<locs, joint_list, req, aside, parent, children, aim_target, up_vec,
                   up_est, starting_up, scene0, snap, ups, basis>>

\* cmds.select(clear=True), the stored selection is selected again when there
\* is one, and reset_orients returns.
ResetSelect ==
    /\ pc = "reset_loop"
    /\ index = Len(joint_list)
    /\ \E o \in RestoreSelection(stored_selection) :
          /\ selection' = o.sel
          /\ trace' = IF o.failed THEN Append(trace, <<"unselectable", EmptyStr>>)
                                   ELSE trace
    /\ pc' = "reset_done"
    /\ UNCHANGED <<scene, locs, joint_list, req, aside, index, parent, children,
                   aim_target, up_vec, up_est, starting_up, scene0, snap, ups, basis>>

ResetNext ==
    \/ ResetSkip
    \/ ResetUnparent
    \/ ResetOrient
    \/ ResetReparent
    \/ ResetSelect

ResetSpec == ResetInit /\ [][ResetNext]_vars

\* ------------------------------------------------------------------ selection
\* Both functions called with something selected: reset_orients as above, and
\* orient_joint on the chains 1 -> 2 -> ..., with every request, on the lists
\* of orient_joint and on the empty list.
ChainScenes == {S \in Scenes : \A n \in Nodes : S.parent[n] = n - 1}

SelInit ==
    \/ ResetInit
    \/ /\ scene \in ChainScenes
       /\ joint_list \in ResetLists(scene)
       /\ req \in Requests
       /\ selection \in Selections
       /\ stored_selection = selection
       /\ locs = {}
       /\ pc = "loop"
       /\ index = 0
       /\ parent = EmptyStr
       /\ children = <<>>
       /\ aim_target = EmptyStr
       /\ up_vec = Zero3
       /\ up_est = Zero3
       /\ starting_up = Zero3
       /\ scene0 = scene
       /\ snap = <<>>
       /\ ups = <<>>
       /\ basis = <<>>
       /\ trace = <<>>
       /\ selected_joint = EmptyStr
       /\ root_joint = EmptyStr

SelNext ==
    \/ Detach
    \/ Target
    \/ UpVec
    \/ Aim
    \/ Flip
    \/ BakeAimed
    \/ CopyParent
    \/ Reattach
    \/ Select
    \/ ResetSkip
    \/ ResetUnparent
    \/ ResetOrient
    \/ ResetReparent
    \/ ResetSelect

SelSpec == SelInit /\ [][SelNext]_vars

\* ------------------------------------------------------------------ get_root_from_joint
\* Mutant of ListParentOfType: the type filter is dropped.
ListParentOfType_AnyType(S, n, t) ==
    IF S.parent[n] # World THEN <<S.parent[n]>> ELSE <<>>

\* cmds.listRelatives(n, parent=True, type=t)
ListParentOfType(S, n, t) ==
    IF S.parent[n] # World /\ S.kind[S.parent[n]] = t THEN <<S.parent[n]>> ELSE <<>>

\* root_joint = selected_joint, for any node of any scene.
RootInit ==
    /\ scene \in Scenes
    /\ selected_joint \in Nodes
    /\ root_joint = selected_joint
    /\ pc = "root_loop"
    /\ joint_list = <<>>
    /\ req = [verbose |-> FALSE]
    /\ selection = {}
    /\ stored_selection = selection
    /\ locs = {}
    /\ index = 0
    /\ parent = EmptyStr
    /\ children = <<>>
    /\ aim_target = EmptyStr
    /\ up_vec = Zero3
    /\ up_est = Zero3
    /\ starting_up = Zero3
    /\ scene0 = scene
    /\ snap = <<>>
    /\ ups = <<>>
    /\ basis = <<>>
    /\ trace = <<>>

\* parent_joint = cmds.listRelatives(...); root_joint = parent_joint[0]
RootStep ==
    /\ pc = "root_loop"
    /\ LET parent_joint == ListParentOfType(scene, root_joint, "joint")
       IN  /\ Len(parent_joint) # 0
           /\ root_joint' = parent_joint[1]
    /\ UNCHANGED <<scene, locs, joint_list, req, selection, stored_selection, selected_joint,
                   pc, index, parent, children, aim_target, up_vec, up_est, starting_up,
                   scene0, snap, ups, basis, trace>>

\* if not parent_joint: break; return root_joint
RootReturn ==
    /\ pc = "root_loop"
    /\ Len(ListParentOfType(scene, root_joint, "joint")) = 0
    /\ pc' = "root_done"
    /\ UNCHANGED <<scene, locs, joint_list, req, selection, stored_selection, selected_joint,
                   root_joint, index, parent, children, aim_target, up_vec, up_est,
                   starting_up, scene0, snap, ups, basis, trace>>

RootNext ==
    \/ RootStep
    \/ RootReturn

\* The loop is sequential code: a step that can be taken is taken.
RootSpec == RootInit /\ [][RootNext]_vars /\ WF_vars(RootNext)

\* ------------------------------------------------------------------ test_math
\* TestMathCore.test_objects_cross_direction: three cubes are created in the
\* world, moved, and objects_cross_direction is called on their names.  The
\* test moves cube two to (0, 5, 0) and cube three to (5, 0, 0); here every
\* cube is put on a point of a small grid of the XY plane.
CubePositions == {<<x, y, 0>> : x \in {0, 1, 5}, y \in {0, 1, 5}}
CubeScene(p_one, p_two, p_three) ==
    [parent |-> [n \in Nodes |-> World],
     kind   |-> [n \in Nodes |-> "transform"],
     trans  |-> [n \in Nodes |-> IF n = 1 THEN p_one ELSE IF n = 2 THEN p_two
                                 ELSE IF n = 3 THEN p_three ELSE Zero3],
     orient |-> [n \in Nodes |-> Identity],
     rot    |-> [n \in Nodes |-> Identity]]

TestInit ==
    /\ scene \in {CubeScene(a, b, c) : a, b, c \in CubePositions}
    /\ joint_list = <<1, 2, 3>>
    /\ req \in {r \in Requests : r.aim_axis = AxisX /\ ~r.detect_up_dir /\ ~r.world_aligned}
    /\ locs = {}
    /\ pc = "test"
    /\ index = 0
    /\ parent = EmptyStr
    /\ children = <<>>
    /\ aim_target = EmptyStr
    /\ up_vec = Zero3
    /\ up_est = Zero3
    /\ starting_up = Zero3
    /\ scene0 = scene
    /\ snap = <<>>
    /\ ups = <<>>
    /\ basis = <<>>
    /\ trace = <<>>
    /\ selection = {}
    /\ stored_selection = {}
    /\ selected_joint = EmptyStr
    /\ root_joint = EmptyStr

\* result = core_math.objects_cross_direction(cube_one, cube_two, cube_three)
TestCall ==
    /\ pc = "test"
    /\ \E o \in objects_cross_direction(scene, locs, joint_list[1], joint_list[2],
                                         joint_list[3]) :
          /\ o.ok
          /\ up_est' = o.v
    /\ pc' = "tested"
    /\ UNCHANGED <<scene, locs, joint_list, req, aside, selection, index, parent,
                   children, aim_target, up_vec, starting_up, scene0, snap, ups, basis,
                   trace>>

TestNext == TestCall

TestSpec == TestInit /\ [][TestNext]_vars

\* ------------------------------------------------------------------ properties
\* Entry i has just been processed: its children were reattached in this state.
JustProcessed(i) == pc = "loop" /\ index = i /\ i >= 1
Terminated == pc \in {"done", "raised"}
JointChildren(S, n) == {c \in Nodes : S.parent[c] = n /\ S.kind[c] = "joint"}
AllChildren(S, n) == {c \in Nodes : S.parent[c] = n}
Issued(op, j) == \E k \in 1..Len(trace) : trace[k] = <<op, j>>

\* C1: whenever orient_joint ends, by returning or by an exception leaving it,
\* every node is parented where it was before the call: no child that was
\* detached from a joint is left parented to the world.
C1_ReattachedOnEveryExit ==
    Terminated => \A n \in Nodes : scene.parent[n] = scene0.parent[n]

\* C2: no failure leaves orient_joint, and every entry of joint_list has been
\* processed when the call ends.
C2_FailureNeverAbortsChain ==
    Terminated => (pc = "done" /\ index = Len(joint_list))

\* C3: an isolated joint (no parent, no children), processed with world_aligned
\* false, goes through no constraint, rotation or bake: its processing never
\* enters the copy-parent branch, never fails, and leaves its rotation as it was.
IsIsolated(S, n) == n \in Nodes /\ S.parent[n] = World /\ AllChildren(S, n) = {}
C3_IsolatedJointUntouched ==
    \A i \in 1..Len(joint_list) :
        LET j == joint_list[i]
        IN  (IsIsolated(scene0, j) /\ ~req.world_aligned /\ index >= i - 1) =>
                /\ scene.rot[j] = scene0.rot[j]
                /\ scene.orient[j] = scene0.orient[j]
                /\ index = i - 1 => pc \notin {"copy", "up", "aim", "flip", "bake", "raised"}

\* C4: with world_aligned false, a joint that has a parent and no joint-typed
\* child ends its processing with its world rotation equal to its parent's (an
\* identity local rotation, frozen into the joint orient), and no aim and no flip
\* was issued for it.
IsLeafWithParent(S, n) ==
    n \in Nodes /\ S.parent[n] # World /\ JointChildren(S, n) = {}
C4_LeafCopiesParent ==
    \A i \in 1..Len(joint_list) :
        LET j == joint_list[i]
        IN  (JustProcessed(i) /\ ~req.world_aligned /\ IsLeafWithParent(scene0, j)) =>
                /\ WRot(scene, j) = WRot(scene, scene.parent[j])
                /\ LocalRot(scene, j) = Identity
                /\ scene.rot[j] = Identity
                /\ ~Issued("aim", j) /\ ~Issued("flip", j)
                /\ \A k \in 1..Len(basis) : basis[k].j # j
C4_Witness ==
    \E i \in 1..Len(joint_list) :
        /\ JustProcessed(i) /\ ~req.world_aligned
        /\ IsLeafWithParent(scene0, joint_list[i])
        /\ Issued("orient", joint_list[i])
        /\ WRot(scene0, joint_list[i]) # WRot(scene0, scene0.parent[joint_list[i]])

\* C5 as claimed: the continuity states stored by consecutive aimed joints have
\* a strictly positive dot product.
C5_ConsecutiveUpsPositive ==
    \A k \in 2..Len(ups) : dot_product(ups[k], ups[k - 1]) > 0
\* C5 as amended: the continuity states stored by consecutive aimed joints have
\* a dot product that is never negative (it is 0 when the two up vectors are
\* perpendicular: the half turn is applied and cannot make it positive).
C5_ConsecutiveUpsNotNegative ==
    \A k \in 2..Len(ups) : dot_product(ups[k], ups[k - 1]) >= 0
C5_Witness ==
    /\ Len(ups) >= 2
    /\ basis[Len(ups)].flip
    /\ dot_product(Normal(basis[Len(ups)].up), ups[Len(ups) - 1]) < 0

\* C6: with world_aligned true, every aimed joint is given the same basis: the
\* same aim direction, the same up vector and the same flip decision.
C6_WorldAlignedSameBasis ==
    req.world_aligned =>
        \A k, m \in 1..Len(basis) :
            (pc \notin {"flip"} \/ (k < Len(basis) /\ m < Len(basis))) =>
                /\ basis[k].dir = basis[m].dir
                /\ basis[k].up = basis[m].up
                /\ basis[k].flip = basis[m].flip

\* C7: every joint that was aimed at a target away from its own position has,
\* from then on, its aim_axis pointing in world space along the unit direction
\* from the joint to the target, whether or not the half turn was applied.
TargetDir(b) ==
    IF IsLocName(b.t) THEN b.dir
    ELSE Normal(VSub(WPos(scene, b.t), WPos(scene, b.j)))
C7_AimAxisPointsAtTarget ==
    \A k \in 1..Len(basis) :
        basis[k].dir # Zero3 =>
            /\ TargetDir(basis[k]) = basis[k].dir
            /\ Apply(WRot(scene, basis[k].j), req.aim_axis) = TargetDir(basis[k])
C7_Witness ==
    /\ pc = "done"
    /\ \E k, m \in 1..Len(basis) :
          /\ basis[k].flip /\ ~basis[m].flip
          /\ basis[k].dir # Zero3
          /\ basis[m].i = 0 /\ basis[m].dir = AxisY /\ ~IsLocName(basis[m].t)
          /\ Apply(WRot(scene, basis[m].j), req.aim_axis) = AxisY

\* C8: from the moment the children of a joint are detached until they are
\* back under it, and in the state right after, each of them has the world
\* position and the world rotation it had before it was detached.
C8_ChildrenKeepWorldTransform ==
    pc \in {"target", "up", "aim", "flip", "bake", "copy", "reattach", "loop"} =>
        \A k \in 1..Len(children) :
            /\ WPos(scene, children[k]) = snap[k][1]
            /\ WRot(scene, children[k]) = snap[k][2]
            /\ JustProcessed(index) => scene.parent[children[k]] = joint_list[index]
C8_Witness ==
    /\ JustProcessed(index)
    /\ Len(children) > 0
    /\ WRot(scene, joint_list[index]) # WRot(scene0, joint_list[index])
    /\ \E k \in 1..Len(children) :
          scene.rot[children[k]] # scene0.rot[children[k]]

\* C9: three collinear joints along world +X, processed root to leaf with the
\* default request: no joint is given the half turn and all three end with an
\* identity local rotation.
ScenarioA ==
    /\ joint_list = <<1, 2, 3>>
    /\ scene0.parent[1] = World /\ scene0.parent[2] = 1 /\ scene0.parent[3] = 2
    /\ JointChildren(scene0, 3) = {}
    /\ WPos(scene0, 1) = Zero3 /\ WPos(scene0, 2) = AxisX
    /\ WPos(scene0, 3) = VScale(2, AxisX)
    /\ req = [aim_axis |-> AxisX, up_axis |-> AxisY, up_dir |-> AxisY,
              detect_up_dir |-> FALSE, world_aligned |-> FALSE]
C9_CollinearChainIdentity ==
    (ScenarioA /\ pc = "done") =>
        /\ \A n \in 1..3 : LocalRot(scene, n) = Identity /\ ~Issued("flip", n)
        /\ \A k \in 1..Len(basis) : ~basis[k].flip
C9_Witness ==
    /\ ScenarioA /\ pc = "done"
    /\ \E n \in 1..3 : LocalRot(scene0, n) # Identity

\* C10: when orient_joint returns, the scene holds the nodes it held before the
\* call (no locator is left) and every node has the parent it had.
C10_SceneGraphRestored ==
    pc = "done" =>
        /\ locs = {}
        /\ scene.parent = scene0.parent
        /\ scene.kind = scene0.kind
C10_Witness ==
    /\ pc = "done"
    /\ Issued("locator", joint_list[1])
    /\ \E i \in 1..Len(joint_list) : AllChildren(scene0, joint_list[i]) # {}
\* C11: the up vector handed to the aim constraint is the request's up_dir when
\* detect_up_dir is false or the estimate is the zero vector, and the estimate
\* otherwise; the vector handed over for an estimate of zero is never that zero.
C11_UpVectorUsed ==
    /\ pc \in {"aim", "flip", "bake"} =>
          up_vec = (IF ~req.detect_up_dir \/ up_est = Zero3 THEN req.up_dir ELSE up_est)
    /\ \A k \in 1..Len(basis) :
          /\ (~req.detect_up_dir \/ basis[k].est = Zero3) => basis[k].up = req.up_dir
          /\ (req.detect_up_dir /\ basis[k].est # Zero3) => basis[k].up = basis[k].est
          /\ basis[k].up # Zero3
C11_Witness ==
    /\ req.detect_up_dir
    /\ \E k, m \in 1..Len(basis) :
          /\ basis[k].est = Zero3 /\ basis[k].up = req.up_dir
          /\ basis[m].est # Zero3 /\ basis[m].up = basis[m].est
\* C12: objects_cross_direction(a, b, c) with a at the origin, b on the +Y axis
\* and c on the +X axis returns exactly (0, 0, 1), as the test asserts.
C12_TestOrientation ==
    (/\ pc = "tested"
     /\ WPos(scene, 1) = Zero3
     /\ WPos(scene, 2)[1] = 0 /\ WPos(scene, 2)[2] > 0
     /\ WPos(scene, 3)[1] > 0 /\ WPos(scene, 3)[2] = 0) => up_est = AxisZ
C12_Witness ==
    /\ pc = "tested"
    /\ WPos(scene, 1) = Zero3
    /\ WPos(scene, 2) = <<0, 5, 0>>
    /\ WPos(scene, 3) = <<5, 0, 0>>
    /\ up_est = <<0, 0, 1>>
\* C13: with world_aligned false, the aim target of a joint that has joint-typed
\* children is the first joint-typed child of its children list.
RECURSIVE FirstJoint(_, _)
FirstJoint(S, list) ==
    IF list = <<>> THEN EmptyStr
    ELSE IF S.kind[Head(list)] = "joint" THEN Head(list)
    ELSE FirstJoint(S, Tail(list))
C13_FirstJointChildIsTarget ==
    (pc \in {"up", "aim", "flip", "bake", "copy"} /\ ~req.world_aligned) =>
        aim_target = FirstJoint(scene, children)
\* C14: the joint aimed at list index i is given the half turn about its local
\* aim_axis exactly when i > 0 and the dot product of its normalised up vector
\* with the continuity state left by the aimed joint before it (the zero vector
\* when there is none) is <= 0; the state stored is then the negated normalised
\* up vector, and the normalised up vector otherwise.  At index 0 there is no
\* half turn.  The half turn comes out in the joint's world rotation.
PrevState(k) == IF k = 1 THEN Zero3 ELSE ups[k - 1]
C14_FlipRule ==
    /\ \A k \in 1..Len(ups) :
          LET cur == Normal(basis[k].up)
              d == dot_product(cur, PrevState(k))
          IN  /\ basis[k].flip <=> (basis[k].i > 0 /\ d <= 0)
              /\ ups[k] = (IF basis[k].i > 0 /\ d <= 0 THEN VNeg(cur) ELSE cur)
              /\ basis[k].i = 0 => (~basis[k].flip /\ ups[k] = cur)
              /\ Issued("flip", basis[k].j) <=> basis[k].flip
    /\ (pc = "bake" /\ starting_up # Zero3
           /\ dot_product(basis[Len(basis)].dir, up_vec) = 0
           /\ basis[Len(basis)].dir # Zero3) =>
          Apply(WRot(scene, jnt), req.up_axis) = starting_up
C14_Witness ==
    /\ pc = "bake"
    /\ Len(ups) >= 2
    /\ basis[Len(ups)].flip
    /\ ups[Len(ups) - 1] # Zero3
    /\ dot_product(Normal(up_vec), ups[Len(ups) - 1]) = 0
    /\ Apply(WRot(scene, jnt), req.up_axis) = VNeg(Normal(up_vec))
\* C15: with detect_up_dir, the estimate of joint J is the cross direction of
\* the three points (ref_parent, J's position, ref_next): ref_parent is the
\* position of J's parent, and J's own position when it has none; ref_next is
\* the position of the first joint child of the aim target, and the position of
\* the aim target when it has none.  Computing the estimate does not fail.
RefParent == IF parent = EmptyList THEN WPos(scene, jnt) ELSE WPos(scene, parent)
RefNext ==
    LET c == FirstJoint(scene, ListAllChildren(scene, aim_target))
    IN  IF c # EmptyStr THEN WPos(scene, c) ELSE PosOf(scene, locs, aim_target)
RaisedInUpVec ==
    /\ pc = "raised" /\ index < Len(joint_list)
    /\ jnt \in Nodes /\ aim_target # EmptyStr
C15_EstimatePoints ==
    /\ (pc = "aim" /\ req.detect_up_dir) =>
          up_est = CrossDirection(RefParent, WPos(scene, jnt), RefNext)
    /\ ~RaisedInUpVec
\* The three points orient_joint has handed to objects_cross_direction for the
\* joint that is about to be aimed, when all three name objects.
AimChild == LastJoint(scene, ListAllChildren(scene, aim_target))
ParentCoincides == Within(WPos(scene, jnt), WPos(scene, parent))
HasTriple ==
    /\ pc = "aim" /\ req.detect_up_dir /\ parent # EmptyList
    /\ ParentCoincides => AimChild # EmptyStr
Triple ==
    IF ParentCoincides
    THEN <<WPos(scene, jnt), PosOf(scene, locs, aim_target), WPos(scene, AimChild)>>
    ELSE <<WPos(scene, parent), WPos(scene, jnt), PosOf(scene, locs, aim_target)>>
NonDegenerate(t) == Cross(VSub(t[2], t[1]), VSub(t[3], t[2])) # Zero3

\* C16 as claimed: the estimate of a non-degenerate triple (p_prev, p_curr,
\* p_next) is normalize(cross(p_curr - p_prev, p_next - p_curr)), sign included.
C16_CrossDirectionAsClaimed ==
    (HasTriple /\ NonDegenerate(Triple)) =>
        up_est = Normal(Cross(VSub(Triple[2], Triple[1]), VSub(Triple[3], Triple[2])))
\* C16 as amended: the estimate of a non-degenerate triple (p_prev, p_curr,
\* p_next) is normalize(cross(p_prev - p_curr, p_next - p_curr)), the opposite
\* of the vector claimed.
C16_CrossDirectionFromMiddlePoint ==
    (HasTriple /\ NonDegenerate(Triple)) =>
        /\ up_est = Normal(Cross(VSub(Triple[1], Triple[2]), VSub(Triple[3], Triple[2])))
        /\ up_est = VNeg(Normal(Cross(VSub(Triple[2], Triple[1]),
                                      VSub(Triple[3], Triple[2]))))
C16_Witness ==
    /\ HasTriple /\ NonDegenerate(Triple) /\ ~ParentCoincides
    /\ ~IsLocName(aim_target)
    /\ up_est # Zero3
\* C17: the continuity state is (0, 0, 0) until the first aimed joint has gone
\* through the continuity check, and only that check changes it: every other
\* step, the copy-parent branch included, leaves it as it was.
C17_StateChangedOnlyByAimedJoints ==
    /\ [](Len(ups) = 0 => starting_up = Zero3)
    /\ [][pc # "flip" => starting_up' = starting_up]_vars
C17_Witness ==
    /\ pc = "reattach"
    /\ Issued("orient", jnt)
    /\ Len(ups) >= 1
    /\ starting_up # Zero3
    /\ starting_up = ups[Len(ups)]
\* C18: when the processing of entry i fails, the continuity state is what it
\* was before the attempt (the state left by the aimed entries before i), and
\* the entry after i is processed and sees it.
C18_FailedJointKeepsStateForNext ==
    pc = "raised" =>
        /\ starting_up = PrevState(Len(ups) + 1)
        /\ \A k \in 1..Len(basis) : basis[k].i < index
        /\ index + 1 < Len(joint_list) => Issued("detach", joint_list[index + 2])
\* C19: the operations on a joint come in the order detach, then orient (the
\* copy-parent branch) or aim and, when applied, flip, then bake, then reattach;
\* every joint whose children were detached has them reattached when the call
\* ends; aim, flip, orient and bake happen while no node is parented under the
\* joint.
At(op, j) == CHOOSE k \in 1..Len(trace) : trace[k] = <<op, j>>
Before(op1, op2, j) == Issued(op1, j) /\ At(op1, j) < At(op2, j)
C19_StepsInOrder ==
    /\ \A j \in Nodes :
          /\ Issued("aim", j) => Before("detach", "aim", j) /\ ~Issued("orient", j)
          /\ Issued("orient", j) => Before("detach", "orient", j)
          /\ Issued("flip", j) => Before("aim", "flip", j)
          /\ Issued("bake", j) =>
                /\ Before("aim", "bake", j) \/ Before("orient", "bake", j)
                /\ Issued("flip", j) => Before("flip", "bake", j)
          /\ Issued("reattach", j) =>
                /\ Before("detach", "reattach", j)
                /\ Issued("bake", j) => Before("bake", "reattach", j)
          /\ (Terminated /\ Issued("detach", j)) => Issued("reattach", j)
    /\ pc \in {"aim", "flip", "bake", "copy"} => AllChildren(scene, jnt) = {}
    /\ (pc = "loop" /\ index >= 1) =>
          \A k \in 1..Len(children) : scene.parent[children[k]] = joint_list[index]
\* C20: the entries of joint_list are processed one after the other in list
\* order, each once: the detaches issued and the reattaches issued follow the
\* list, an entry is started only when the one before it has been reattached,
\* and a call that returns has processed every entry.  The nodes that are away
\* from their parent are children of the entry being processed, and there are
\* none between two entries.
IsDetach(e) == e[1] = "detach"
IsReattach(e) == e[1] = "reattach"
Displaced == {n \in Nodes : scene.parent[n] # scene0.parent[n]}
LocatorsMade(j) == Cardinality({k \in 1..Len(trace) : trace[k] = <<"locator", j>>})
C21_OneTransientLocator ==
    /\ pc \in {"loop", "done"} => locs = {}
    /\ Cardinality(locs) <= 1
    /\ \A l \in locs : l.name = LocName(jnt) /\ l.pos = VAdd(WPos(scene, jnt), AxisY)
    /\ \A i \in 1..Len(joint_list) :
          /\ (req.world_aligned /\ i <= index) => LocatorsMade(joint_list[i]) = 1
          /\ (~req.world_aligned \/ i > index + 1) => LocatorsMade(joint_list[i]) = 0
    /\ ~req.world_aligned => locs = {}
C21_Witness ==
    /\ pc = "done"
    /\ req.world_aligned
    /\ Len(joint_list) >= 2
    /\ \A i \in 1..Len(joint_list) : LocatorsMade(joint_list[i]) = 1
    /\ locs = {}
C23_CoincidentTargetNotAimed ==
    \A k \in 1..Len(basis) :
        /\ basis[k].dir # Zero3
        /\ PosOf(scene0, {}, basis[k].j) # (IF IsLocName(basis[k].t)
                                            THEN VAdd(WPos(scene0, basis[k].j), AxisY)
                                            ELSE WPos(scene0, basis[k].t))
\* C24: when the first joint to be aimed is at a list index i > 0 (every entry
\* before it went without aim target), the continuity state is still (0, 0, 0)
\* when it is tested, the dot product is 0 and the joint is given the half turn,
\* whatever its up vector: the state it leaves is minus its normalised up vector.
C24_FirstAimedJointAfterIndexZeroIsFlipped ==
    /\ (pc = "flip" /\ Len(basis) = 1 /\ index > 0) =>
          /\ starting_up = Zero3
          /\ dot_product(Normal(up_vec), starting_up) = 0
    /\ (Len(ups) >= 1 /\ basis[1].i > 0) =>
          /\ basis[1].flip
          /\ Issued("flip", basis[1].j)
          /\ ups[1] = VNeg(Normal(basis[1].up))
C24_Witness ==
    /\ pc = "bake"
    /\ Len(ups) = 1
    /\ basis[1].i > 0
    /\ basis[1].flip
    /\ dot_product(basis[1].dir, up_vec) = 0
    /\ Apply(WRot(scene, jnt), req.up_axis) = VNeg(Normal(up_vec))
\* C25: with detect_up_dir false (the up vector is up_dir for every joint), the
\* aimed joints are all flipped or none is: none when the first aimed joint is
\* at index 0, all of them otherwise; the continuity state every aimed joint
\* leaves is normalize(up_dir) in the first case and -normalize(up_dir) in the
\* second.
C25_ConstantUpFlipsUniformly ==
    ~req.detect_up_dir =>
        \A k \in 1..Len(ups) :
            /\ basis[k].flip <=> basis[1].i > 0
            /\ ups[k] = (IF basis[1].i > 0 THEN VNeg(Normal(req.up_dir))
                                            ELSE Normal(req.up_dir))
C25_Witness ==
    /\ ~req.detect_up_dir /\ ~req.world_aligned
    /\ Len(ups) >= 2
    /\ basis[1].i > 0
    /\ basis[2].flip
    /\ ups[2] = VNeg(Normal(req.up_dir))

\* C26: between two joints and at the end of the call, the continuity state is
\* (0, 0, 0) when no joint has been aimed yet, and otherwise the normalised up
\* vector of the last joint aimed, negated exactly when that joint was flipped.
C26_StateBetweenJoints ==
    pc \in {"loop", "done"} =>
        starting_up = (IF Len(basis) = 0 THEN Zero3
                       ELSE IF basis[Len(basis)].flip
                            THEN VNeg(Normal(basis[Len(basis)].up))
                            ELSE Normal(basis[Len(basis)].up))
C26_Witness ==
    /\ pc = "loop"
    /\ req.detect_up_dir
    /\ Len(basis) >= 2
    /\ basis[Len(basis)].flip
    /\ basis[Len(basis)].est # Zero3
    /\ starting_up = VNeg(basis[Len(basis)].est)
\* C27: with world_aligned false, a joint whose children are all plain
\* transforms has every one of them detached while it is processed, is given no
\* aim, and has them all back under it once its processing is over, however it
\* ended.
TransformOnly(S, n) ==
    /\ n \in Nodes
    /\ AllChildren(S, n) # {}
    /\ \A c \in AllChildren(S, n) : S.kind[c] = "transform"
C27_TransformChildrenComeBack ==
    \A i \in 1..Len(joint_list) :
        LET j == joint_list[i]
        IN  (TransformOnly(scene0, j) /\ ~req.world_aligned) =>
                /\ ~Issued("aim", j)
                /\ (index = i - 1 /\ pc \in {"target", "copy", "reattach"}) =>
                      /\ {children[k] : k \in 1..Len(children)} = AllChildren(scene0, j)
                      /\ AllChildren(scene, j) = {}
                /\ (index >= i \/ (index = i - 1 /\ pc = "raised")) =>
                      AllChildren(scene, j) = AllChildren(scene0, j)


\* The calls op1, op2, op3 on j were issued, in that order.
IssuedInOrder(op1, op2, op3, j) ==
    \E a, b, c \in 1..Len(trace) :
        /\ a < b /\ b < c
        /\ trace[a] = <<op1, j>> /\ trace[b] = <<op2, j>> /\ trace[c] = <<op3, j>>

\* C29: reset_orients skips every entry of the list that does not exist, with
\* a warning only when verbose, and processes all the others; an existing
\* joint that had a parent is parented to the world, re-oriented and parented
\* back under the same parent, so that when reset_orients returns every node
\* has the parent it had before the call.
C29_ResetSkipsMissingKeepsParents ==
    /\ (pc \in {"reset_orient", "reset_reparent"} /\ scene0.parent[jnt] # World) =>
          /\ scene.parent[jnt] = World
          /\ parent = scene0.parent[jnt]
    /\ pc = "reset_done" =>
          /\ \A i \in 1..Len(joint_list) :
                LET j == joint_list[i]
                IN  IF Exists(scene0, j)
                    THEN IF scene0.parent[j] # World
                         THEN IssuedInOrder("unparent", "orient", "reparent", j)
                         ELSE Issued("orient", j)
                    ELSE /\ ~Issued("orient", j)
                         /\ Issued("warning", j) <=> req.verbose
          /\ \A n \in Nodes : scene.parent[n] = scene0.parent[n]

\* A call that skipped a missing entry, then processed a joint that has a
\* parent and whose joint orient was not zero, and returned.
C29_Witness ==
    /\ pc = "reset_done"
    /\ \E i, k \in 1..Len(joint_list) :
          /\ i < k
          /\ ~Exists(scene0, joint_list[i])
          /\ Exists(scene0, joint_list[k])
          /\ scene0.parent[joint_list[k]] # World
          /\ scene0.orient[joint_list[k]] # Identity
          /\ Issued("reparent", joint_list[k])


\* C28: when orient_joint or reset_orients returns normally, what is selected
\* is what was selected when it was called, for every list and the empty one;
\* nothing is selected when nothing was or when the host refused to select the
\* stored names again, and that refusal does not leave the function as a
\* failure.
C28_SelectionRestoredOnReturn ==
    /\ pc \in {"done", "reset_done"} =>
          selection = IF Issued("unselectable", EmptyStr) THEN {} ELSE stored_selection
    /\ Issued("unselectable", EmptyStr) => pc \in {"done", "reset_done"}

\* orient_joint returned with the stored selection selected again, after its
\* calls had selected something else: the children it detached and reattached.
C28_Witness ==
    /\ pc = "done"
    /\ stored_selection # {}
    /\ selection = stored_selection
    /\ \E j \in Nodes :
          /\ Issued("reattach", j)
          /\ AllChildren(scene0, j) # {}
          /\ AllChildren(scene0, j) # stored_selection


\* The node k parent links above n, World when there is none.
RECURSIVE Up(_, _, _)
Up(S, n, k) ==
    IF k = 0 \/ n = World THEN n ELSE Up(S, S.parent[n], k - 1)

IsJoint(S, n) == n # World /\ S.kind[n] = "joint"

====
